---- MODULE Spec2Model ----
(***************************************************************************)
(* Workspace actions of the SDK: listWorkspaces / safeListWorkspaces and   *)
(* getWorkspace / safeGetWorkspace.  One round of the model runs the       *)
(* throwing variant and the safe variant of one action on the same         *)
(* arguments against a server that gives both the same HTTP outcome.       *)
(*                                                                         *)
(* Strings are sequences of one-character strings, JSON values are records *)
(* of one field named after their kind, Zod schemas are records            *)
(* interpreted by ZodParse.                                                *)
(***************************************************************************)
EXTENDS Integers, Sequences, FiniteSets, TLC

VARIABLES fn, teamSlug, parameters, server, pc, requests, reply, result, trace

vars == <<fn, teamSlug, parameters, server, pc, requests, reply, result, trace>>

(***************************************************************************)
(* Bounds                                                                  *)
(***************************************************************************)
MaxCursorLen == 2
MaxSlugLen == 2
MaxLimit == 10
MaxItems == 1

(***************************************************************************)
(* Strings                                                                 *)
(***************************************************************************)
RECURSIVE SeqsUpTo(_, _)
SeqsUpTo(S, n) ==
  IF n = 0 THEN {<<>>}
  ELSE LET shorter == SeqsUpTo(S, n - 1)
       IN shorter \cup {Append(s, c) : s \in {t \in shorter : Len(t) = n - 1}, c \in S}

CursorChars == {"a", "&", "+", " "}
SlugChars == {"a", "/", "?"}

DigitChars == <<"0", "1", "2", "3", "4", "5", "6", "7", "8", "9">>

RECURSIVE NatToString(_)
NatToString(n) ==
  IF n < 10 THEN <<DigitChars[n + 1]>>
  ELSE Append(NatToString(n \div 10), DigitChars[(n % 10) + 1])

\* Number.prototype.toString() on an integer
NumberToString(n) == IF n < 0 THEN <<"-">> \o NatToString(0 - n) ELSE NatToString(n)

(***************************************************************************)
(* URLSearchParams                                                         *)
(***************************************************************************)
UrlSafeChars == {"a", "c", "u", "r", "s", "o", "l", "i", "m", "t", "-", ".", "_", "*"}
                  \cup {DigitChars[i] : i \in 1..10}

\* application/x-www-form-urlencoded byte serializer, one character
UrlEncodeChar(c) ==
  IF c \in UrlSafeChars THEN <<c>>
  ELSE CASE c = " " -> <<"+">>
         [] c = "&" -> <<"%", "2", "6">>
         [] c = "=" -> <<"%", "3", "D">>
         [] c = "+" -> <<"%", "2", "B">>
         [] c = "%" -> <<"%", "2", "5">>
         [] c = "/" -> <<"%", "2", "F">>
         [] c = "?" -> <<"%", "3", "F">>

RECURSIVE UrlEncode(_)
UrlEncode(s) == IF Len(s) = 0 THEN <<>> ELSE UrlEncodeChar(Head(s)) \o UrlEncode(Tail(s))

\* new URLSearchParams().toString() of a list of <<name, value>> pairs
RECURSIVE URLSearchParams_toString(_)
URLSearchParams_toString(pairs) ==
  IF Len(pairs) = 0 THEN <<>>
  ELSE LET one == UrlEncode(pairs[1][1]) \o <<"=">> \o UrlEncode(pairs[1][2])
       IN IF Len(pairs) = 1 THEN one
          ELSE one \o <<"&">> \o URLSearchParams_toString(Tail(pairs))

WorkspacesPath == <<"/", "w", "o", "r", "k", "s", "p", "a", "c", "e", "s">>
CursorName == <<"c", "u", "r", "s", "o", "r">>
LimitName == <<"l", "i", "m", "i", "t">>

(***************************************************************************)
(* JSON values and Zod schemas                                             *)
(***************************************************************************)
JStr(x) == [str |-> x]
JNum(x) == [num |-> x]
JBool(x) == [bool |-> x]
JNull == [null |-> TRUE]
JObj(f) == [obj |-> f]
JArr(s) == [arr |-> s]
Undefined == [undefined |-> TRUE]

\* the kind of a JSON value, "str", "num", "bool", "null", "obj", "arr" or "undefined"
Kind(j) == CHOOSE t \in DOMAIN j : TRUE

\* the value of object o extended or overwritten at key
WithField(o, key, val) ==
  JObj([x \in DOMAIN o.obj \cup {key} |-> IF x = key THEN val ELSE o.obj[x]])

WithoutField(o, key) == JObj([x \in DOMAIN o.obj \ {key} |-> o.obj[x]])

ZString == [t |-> "string"]
ZNumber == [t |-> "number"]
ZBoolean == [t |-> "boolean"]
ZNullable(inner) == [t |-> "nullable", inner |-> inner]
ZArray(element) == [t |-> "array", element |-> element]
ZObject(shape, unknownKeys) == [t |-> "object", shape |-> shape, unknownKeys |-> unknownKeys]

RECURSIVE SumOver(_, _)
SumOver(f, S) ==
  IF S = {} THEN 0
  ELSE LET x == CHOOSE y \in S : TRUE IN f[x] + SumOver(f, S \ {x})

\* schema.safeParse(value): [success, data, issues]
RECURSIVE ZodParse(_, _)
ZodParse(schema, value) ==
  LET ok(out) == [success |-> TRUE, data |-> out, issues |-> 0]
      bad(n) == [success |-> FALSE, data |-> Undefined, issues |-> n]
      scalar(kind) == IF Kind(value) = kind THEN ok(value) ELSE bad(1)
  IN CASE schema.t = "string" -> scalar("str")
       [] schema.t = "number" -> scalar("num")
       [] schema.t = "boolean" -> scalar("bool")
       [] schema.t = "nullable" ->
            IF Kind(value) = "null" THEN ok(value) ELSE ZodParse(schema.inner, value)
       [] schema.t = "array" ->
            IF Kind(value) # "arr" THEN bad(1)
            ELSE LET each == [i \in DOMAIN value.arr |-> ZodParse(schema.element, value.arr[i])]
                     n == SumOver([i \in DOMAIN each |-> each[i].issues], DOMAIN each)
                 IN IF n = 0 THEN ok(JArr([i \in DOMAIN each |-> each[i].data])) ELSE bad(n)
       [] schema.t = "object" ->
            IF Kind(value) # "obj" THEN bad(1)
            ELSE LET keys == DOMAIN schema.shape
                     each == [key \in keys |->
                                ZodParse(schema.shape[key],
                                         IF key \in DOMAIN value.obj THEN value.obj[key]
                                         ELSE Undefined)]
                     n == SumOver([key \in keys |-> each[key].issues], keys)
                     kept == IF schema.unknownKeys = "passthrough"
                             THEN DOMAIN value.obj \cup keys
                             ELSE keys
                 IN IF n = 0
                    THEN ok(JObj([key \in kept |->
                                    IF key \in keys THEN each[key].data ELSE value.obj[key]]))
                    ELSE bad(n)

\* faulty variant: the workspace schema without .passthrough()
WorkspaceResponseSchema_strip ==
  ZObject([id |-> ZString,
           name |-> ZString,
           slug |-> ZNullable(ZString),
           tier |-> ZString,
           role |-> ZString,
           created_at |-> ZString], "strip")

WorkspaceResponseSchema ==
  ZObject([id |-> ZString,
           name |-> ZString,
           slug |-> ZNullable(ZString),
           tier |-> ZString,
           role |-> ZString,
           created_at |-> ZString], "passthrough")

PaginationMetadataSchema ==
  ZObject([has_more |-> ZBoolean,
           next_cursor |-> ZNullable(ZString),
           total |-> ZNullable(ZNumber)], "passthrough")

ListWorkspacesSchema ==
  ZObject([data |-> ZArray(WorkspaceResponseSchema),
           pagination |-> PaginationMetadataSchema], "passthrough")

\* the custom schemas of the usage examples
ListCustomSchema == ZObject([data |-> ZArray(ZObject([id |-> ZString], "strip"))], "strip")
GetCustomSchema == ZObject([id |-> ZString, name |-> ZString], "strip")

(***************************************************************************)
(* Arguments of a call                                                     *)
(***************************************************************************)
\* what a caller can put in parameters.schema: nothing, false, a Zod schema,
\* or something that is none of these (null, an object without parse)
SchemaOptions == {"undefined", "false", "custom", "null", "plainObject"}

IsZodSchema(option) == option = "custom"

\* JavaScript truthiness of the schema option
Truthy(option) == option \in {"custom", "plainObject"}

Unset == [set |-> FALSE, val |-> <<>>]
UnsetNumber == [set |-> FALSE, val |-> 0]

NoParameters == [given |-> FALSE, schema |-> "undefined", cursor |-> Unset, limit |-> UnsetNumber]

Cursors == {Unset} \cup {[set |-> TRUE, val |-> s] : s \in SeqsUpTo(CursorChars, MaxCursorLen)}
\* a negative limit, zero, one digit and the largest limit of the model
Limits == {UnsetNumber} \cup {[set |-> TRUE, val |-> n] : n \in {-1, 0, 1, MaxLimit}}

ListWorkspacesParameters ==
  {NoParameters} \cup
  {[given |-> TRUE, schema |-> o, cursor |-> c, limit |-> l] :
     o \in SchemaOptions, c \in Cursors, l \in Limits}

GetWorkspaceParameters ==
  {NoParameters} \cup
  {[given |-> TRUE, schema |-> o, cursor |-> Unset, limit |-> UnsetNumber] : o \in SchemaOptions}

TeamSlugs == SeqsUpTo(SlugChars, MaxSlugLen)

\* parameters?.schema
SchemaOf(p) == IF p.given THEN p.schema ELSE "undefined"

(***************************************************************************)
(* Response bodies the server can send                                     *)
(***************************************************************************)
WorkspaceFields == {"id", "name", "slug", "tier", "role", "created_at"}
PaginationFields == {"has_more", "next_cursor", "total"}

Workspace0 ==
  JObj([id |-> JStr("ws_1"), name |-> JStr("Team"), slug |-> JStr("team"),
        tier |-> JStr("free"), role |-> JStr("owner"), created_at |-> JStr("2024-01-01")])

Pagination0 == JObj([has_more |-> JBool(FALSE), next_cursor |-> JNull, total |-> JNull])

Pagination1 ==
  JObj([has_more |-> JBool(TRUE), next_cursor |-> JStr("c2"), total |-> JNum(3),
        page_size |-> JNum(20)])

GetBodies ==
  {Workspace0,
   WithField(Workspace0, "slug", JNull),
   WithField(Workspace0, "avatar", JStr("a.png")),
   WithField(Workspace0, "id", JNum(1)),
   JNull}
  \cup {WithoutField(Workspace0, f) : f \in WorkspaceFields}

WorkspaceEntries ==
  {WithField(Workspace0, "avatar", JStr("a.png")),
   WithField(Workspace0, "slug", JNull),
   WithoutField(Workspace0, "tier")}

ListBody(entries, pagination) == JObj([data |-> JArr(entries), pagination |-> pagination])

ListBodies ==
  {ListBody(es, Pagination0) : es \in SeqsUpTo(WorkspaceEntries, MaxItems)}
  \cup {WithField(ListBody(es, Pagination1), "request_id", JStr("r1")) :
          es \in SeqsUpTo(WorkspaceEntries, MaxItems)}
  \cup {ListBody(<<Workspace0>>, WithoutField(Pagination0, f)) : f \in PaginationFields}
  \cup {ListBody(<<Workspace0>>, WithField(Pagination0, "has_more", JNull)),
        WithoutField(ListBody(<<Workspace0>>, Pagination0), "data"),
        WithoutField(ListBody(<<Workspace0>>, Pagination0), "pagination"),
        JArr(<<Workspace0>>)}

FailureStatuses == {404, 500}

Servers(bodies) ==
  {[ok |-> TRUE, status |-> 200, body |-> b] : b \in bodies}
  \cup {[ok |-> FALSE, status |-> st, body |-> Undefined] : st \in FailureStatuses}

(***************************************************************************)
(* Errors and results                                                      *)
(***************************************************************************)
InvalidSchemaError == [name |-> "Error", isRequestError |-> FALSE, issues |-> 0, status |-> 0]
InvalidSchemaIssue == [name |-> "ZodError", isRequestError |-> FALSE, issues |-> 1, status |-> 0]
RequestError(status) ==
  [name |-> "RequestError", isRequestError |-> TRUE, issues |-> 0, status |-> status]
ZodError(n) == [name |-> "ZodError", isRequestError |-> FALSE, issues |-> n, status |-> 0]
TypeError == [name |-> "TypeError", isRequestError |-> FALSE, issues |-> 0, status |-> 0]

Success(d) == [success |-> TRUE, data |-> d]
Failure(e) == [success |-> FALSE, error |-> e]

\* how a call completes; step is the statement group that ended it
\* and parsed records whether a response schema was run on the way
Pending == [kind |-> "none", value |-> Undefined, step |-> "none", parsed |-> FALSE]
Returned(value, step) == [kind |-> "return", value |-> value, step |-> step, parsed |-> FALSE]
Thrown(error, step) == [kind |-> "throw", value |-> error, step |-> step, parsed |-> FALSE]
AfterParse(completion) == [completion EXCEPT !.parsed = TRUE]

\* return schema.parse(value): the data, or a thrown ZodError
Schema_parse(schema, value) ==
  LET r == ZodParse(schema, value)
  IN AfterParse(IF r.success THEN Returned(r.data, "none")
                ELSE Thrown(ZodError(r.issues), "response"))

\* return schema.safeParse(value): the SafeResult it is cast to
Schema_safeParse(schema, value) ==
  LET r == ZodParse(schema, value)
  IN AfterParse(IF r.success THEN Returned(Success(r.data), "none")
                ELSE Returned(Failure(ZodError(r.issues)), "response"))

(***************************************************************************)
(* utils: validateActionParameters / safeValidateActionParameters          *)
(***************************************************************************)
\* TRUE when validateActionParameters(parameters) throws
validateActionParameters(p) ==
  SchemaOf(p) # "undefined" /\ SchemaOf(p) # "false" /\ ~IsZodSchema(SchemaOf(p))

\* the failure result of safeValidateActionParameters, or Undefined
safeValidateActionParameters(p) ==
  IF SchemaOf(p) # "undefined" /\ SchemaOf(p) # "false" /\ ~IsZodSchema(SchemaOf(p))
  THEN Failure(InvalidSchemaIssue)
  ELSE Undefined

(***************************************************************************)
(* listWorkspaces / safeListWorkspaces                                     *)
(***************************************************************************)
\* queryParams and url of listWorkspaces
listWorkspaces_url(p) ==
  LET withCursor == IF p.given /\ p.cursor.set /\ Len(p.cursor.val) > 0
                    THEN <<(<<CursorName, p.cursor.val>>)>>
                    ELSE <<>>
      queryParams == IF p.given /\ p.limit.set /\ p.limit.val # 0
                     THEN Append(withCursor, <<LimitName, NumberToString(p.limit.val)>>)
                     ELSE withCursor
      query == URLSearchParams_toString(queryParams)
  IN IF Len(query) > 0 THEN WorkspacesPath \o <<"?">> \o query ELSE WorkspacesPath

\* listWorkspaces once client.get(url) has resolved with response
listWorkspaces_return(p, response) ==
  IF SchemaOf(p) = "false" THEN Returned(response, "none")
  ELSE IF Truthy(SchemaOf(p))
       THEN IF IsZodSchema(SchemaOf(p)) THEN Schema_parse(ListCustomSchema, response)
            ELSE Thrown(TypeError, "response")
       ELSE Schema_parse(ListWorkspacesSchema, response)

\* faulty variant: the safe variant appends limit before cursor
safeListWorkspaces_url_limitFirst(p) ==
  LET withLimit == IF p.given /\ p.limit.set /\ p.limit.val # 0
                   THEN <<(<<LimitName, NumberToString(p.limit.val)>>)>>
                   ELSE <<>>
      queryParams == IF p.given /\ p.cursor.set /\ Len(p.cursor.val) > 0
                     THEN Append(withLimit, <<CursorName, p.cursor.val>>)
                     ELSE withLimit
      query == URLSearchParams_toString(queryParams)
  IN IF Len(query) > 0 THEN WorkspacesPath \o <<"?">> \o query ELSE WorkspacesPath

\* queryParams and url of safeListWorkspaces
safeListWorkspaces_url(p) ==
  LET withCursor == IF p.given /\ p.cursor.set /\ Len(p.cursor.val) > 0
                    THEN <<(<<CursorName, p.cursor.val>>)>>
                    ELSE <<>>
      queryParams == IF p.given /\ p.limit.set /\ p.limit.val # 0
                     THEN Append(withCursor, <<LimitName, NumberToString(p.limit.val)>>)
                     ELSE withCursor
      query == URLSearchParams_toString(queryParams)
  IN IF Len(query) > 0 THEN WorkspacesPath \o <<"?">> \o query ELSE WorkspacesPath

\* faulty variant: the safe variant lets a failed response validation escape as an exception
safeListWorkspaces_return_throwing(p, httpResult) ==
  IF ~httpResult.success THEN Returned(httpResult, "request")
  ELSE IF SchemaOf(p) = "false" THEN Returned(Success(httpResult.data), "none")
  ELSE LET r == Schema_safeParse(IF IsZodSchema(SchemaOf(p)) THEN ListCustomSchema
                                 ELSE ListWorkspacesSchema, httpResult.data)
       IN IF r.value.success THEN r ELSE AfterParse(Thrown(r.value.error, "response"))

\* faulty variant: a failed request is run through the response schema instead of passed through
safeListWorkspaces_return_parsesFailure(p, httpResult) ==
  IF SchemaOf(p) = "false"
  THEN IF httpResult.success THEN Returned(Success(httpResult.data), "none")
       ELSE Returned(httpResult, "request")
  ELSE Schema_safeParse(IF IsZodSchema(SchemaOf(p)) THEN ListCustomSchema
                        ELSE ListWorkspacesSchema,
                        IF httpResult.success THEN httpResult.data ELSE Undefined)

\* safeListWorkspaces once client.safeGet(url) has resolved with httpResult
safeListWorkspaces_return(p, httpResult) ==
  IF ~httpResult.success THEN Returned(httpResult, "request")
  ELSE IF SchemaOf(p) = "false" THEN Returned(Success(httpResult.data), "none")
  ELSE IF Truthy(SchemaOf(p))
       THEN IF IsZodSchema(SchemaOf(p))
            THEN Schema_safeParse(ListCustomSchema, httpResult.data)
            ELSE Thrown(TypeError, "response")
       ELSE Schema_safeParse(ListWorkspacesSchema, httpResult.data)

(***************************************************************************)
(* getWorkspace / safeGetWorkspace                                         *)
(***************************************************************************)
\* faulty variant: the slug is percent-encoded before it goes into the path
getWorkspace_url_encoded(slug) == WorkspacesPath \o <<"/">> \o UrlEncode(slug)

getWorkspace_url(slug) == WorkspacesPath \o <<"/">> \o slug

\* faulty variant: a custom schema is ignored in favour of the default one
getWorkspace_return_defaultOnly(p, response) ==
  IF SchemaOf(p) = "false" THEN Returned(response, "none")
  ELSE Schema_parse(WorkspaceResponseSchema, response)

\* getWorkspace once client.get(url) has resolved with response
getWorkspace_return(p, response) ==
  IF SchemaOf(p) = "false" THEN Returned(response, "none")
  ELSE IF Truthy(SchemaOf(p))
       THEN IF IsZodSchema(SchemaOf(p)) THEN Schema_parse(GetCustomSchema, response)
            ELSE Thrown(TypeError, "response")
       ELSE Schema_parse(WorkspaceResponseSchema, response)

safeGetWorkspace_url(slug) == WorkspacesPath \o <<"/">> \o slug

\* faulty variant: the safe variant returns the response without validating it
safeGetWorkspace_return_unvalidated(p, httpResult) ==
  IF ~httpResult.success THEN Returned(httpResult, "request")
  ELSE Returned(Success(httpResult.data), "none")

\* safeGetWorkspace once client.safeGet(url) has resolved with httpResult
safeGetWorkspace_return(p, httpResult) ==
  IF ~httpResult.success THEN Returned(httpResult, "request")
  ELSE IF SchemaOf(p) = "false" THEN Returned(Success(httpResult.data), "none")
  ELSE IF Truthy(SchemaOf(p))
       THEN IF IsZodSchema(SchemaOf(p))
            THEN Schema_safeParse(GetCustomSchema, httpResult.data)
            ELSE Thrown(TypeError, "response")
       ELSE Schema_safeParse(WorkspaceResponseSchema, httpResult.data)

(***************************************************************************)
(* State machine                                                           *)
(***************************************************************************)
Variants == {"throwing", "safe"}

NoReply == [arrived |-> FALSE, settled |-> "pending", value |-> Undefined]

Init ==
  /\ fn \in {"list", "get"}
  /\ teamSlug \in (IF fn = "get" THEN TeamSlugs ELSE {<<>>})
  /\ parameters \in (IF fn = "list" THEN ListWorkspacesParameters ELSE GetWorkspaceParameters)
  /\ server \in (IF fn = "list" THEN Servers(ListBodies) ELSE Servers(GetBodies))
  /\ pc = [v \in Variants |-> "start"]
  /\ requests = [v \in Variants |-> <<>>]
  /\ reply = [v \in Variants |-> NoReply]
  /\ result = [v \in Variants |-> Pending]
  /\ trace = [v \in Variants |-> <<>>]

\* the call of variant v completes with outcome r
Complete(v, r) ==
  /\ result' = [result EXCEPT ![v] = r]
  /\ pc' = [pc EXCEPT ![v] = "done"]
  /\ trace' = [trace EXCEPT ![v] = IF r.parsed THEN Append(@, "validateResponse") ELSE @]
  /\ UNCHANGED <<fn, teamSlug, parameters, server, requests, reply>>

\* faulty variant: the request is sent before the parameters are validated
listWorkspaces_call_requestFirst ==
  /\ fn = "list" /\ pc["throwing"] = "start"
  /\ requests' = [requests EXCEPT !["throwing"] = Append(@, listWorkspaces_url(parameters))]
  /\ trace' = [trace EXCEPT !["throwing"] = @ \o <<"request", "validateParameters">>]
  /\ IF validateActionParameters(parameters)
     THEN /\ result' = [result EXCEPT !["throwing"] = Thrown(InvalidSchemaError, "parameters")]
          /\ pc' = [pc EXCEPT !["throwing"] = "done"]
     ELSE /\ pc' = [pc EXCEPT !["throwing"] = "awaiting"]
          /\ UNCHANGED result
  /\ UNCHANGED <<fn, teamSlug, parameters, server, reply>>

listWorkspaces_call ==
  /\ fn = "list" /\ pc["throwing"] = "start"
  /\ IF validateActionParameters(parameters)
     THEN /\ result' = [result EXCEPT !["throwing"] = Thrown(InvalidSchemaError, "parameters")]
          /\ pc' = [pc EXCEPT !["throwing"] = "done"]
          /\ trace' = [trace EXCEPT !["throwing"] = Append(@, "validateParameters")]
          /\ UNCHANGED requests
     ELSE /\ requests' = [requests EXCEPT !["throwing"] = Append(@, listWorkspaces_url(parameters))]
          /\ pc' = [pc EXCEPT !["throwing"] = "awaiting"]
          /\ trace' = [trace EXCEPT !["throwing"] = @ \o <<"validateParameters", "request">>]
          /\ UNCHANGED result
  /\ UNCHANGED <<fn, teamSlug, parameters, server, reply>>

listWorkspaces_resume ==
  /\ fn = "list" /\ pc["throwing"] = "awaiting" /\ reply["throwing"].arrived
  /\ IF reply["throwing"].settled = "rejected"
     THEN Complete("throwing", Thrown(reply["throwing"].value, "request"))
     ELSE Complete("throwing", listWorkspaces_return(parameters, reply["throwing"].value))

safeListWorkspaces_call ==
  /\ fn = "list" /\ pc["safe"] = "start"
  /\ LET parameterValidationError == safeValidateActionParameters(parameters)
     IN IF parameterValidationError # Undefined
        THEN /\ result' = [result EXCEPT !["safe"] =
                             Returned(parameterValidationError, "parameters")]
             /\ pc' = [pc EXCEPT !["safe"] = "done"]
             /\ trace' = [trace EXCEPT !["safe"] = Append(@, "validateParameters")]
             /\ UNCHANGED requests
        ELSE /\ requests' = [requests EXCEPT !["safe"] = Append(@, safeListWorkspaces_url(parameters))]
             /\ pc' = [pc EXCEPT !["safe"] = "awaiting"]
             /\ trace' = [trace EXCEPT !["safe"] = @ \o <<"validateParameters", "request">>]
             /\ UNCHANGED result
  /\ UNCHANGED <<fn, teamSlug, parameters, server, reply>>

safeListWorkspaces_resume ==
  /\ fn = "list" /\ pc["safe"] = "awaiting" /\ reply["safe"].arrived
  /\ Complete("safe", safeListWorkspaces_return(parameters, reply["safe"].value))

getWorkspace_call ==
  /\ fn = "get" /\ pc["throwing"] = "start"
  /\ IF validateActionParameters(parameters)
     THEN /\ result' = [result EXCEPT !["throwing"] = Thrown(InvalidSchemaError, "parameters")]
          /\ pc' = [pc EXCEPT !["throwing"] = "done"]
          /\ trace' = [trace EXCEPT !["throwing"] = Append(@, "validateParameters")]
          /\ UNCHANGED requests
     ELSE /\ requests' = [requests EXCEPT !["throwing"] = Append(@, getWorkspace_url(teamSlug))]
          /\ pc' = [pc EXCEPT !["throwing"] = "awaiting"]
          /\ trace' = [trace EXCEPT !["throwing"] = @ \o <<"validateParameters", "request">>]
          /\ UNCHANGED result
  /\ UNCHANGED <<fn, teamSlug, parameters, server, reply>>

getWorkspace_resume ==
  /\ fn = "get" /\ pc["throwing"] = "awaiting" /\ reply["throwing"].arrived
  /\ IF reply["throwing"].settled = "rejected"
     THEN Complete("throwing", Thrown(reply["throwing"].value, "request"))
     ELSE Complete("throwing", getWorkspace_return(parameters, reply["throwing"].value))

safeGetWorkspace_call ==
  /\ fn = "get" /\ pc["safe"] = "start"
  /\ LET parameterValidationError == safeValidateActionParameters(parameters)
     IN IF parameterValidationError # Undefined
        THEN /\ result' = [result EXCEPT !["safe"] =
                             Returned(parameterValidationError, "parameters")]
             /\ pc' = [pc EXCEPT !["safe"] = "done"]
             /\ trace' = [trace EXCEPT !["safe"] = Append(@, "validateParameters")]
             /\ UNCHANGED requests
        ELSE /\ requests' = [requests EXCEPT !["safe"] = Append(@, safeGetWorkspace_url(teamSlug))]
             /\ pc' = [pc EXCEPT !["safe"] = "awaiting"]
             /\ trace' = [trace EXCEPT !["safe"] = @ \o <<"validateParameters", "request">>]
             /\ UNCHANGED result
  /\ UNCHANGED <<fn, teamSlug, parameters, server, reply>>

\* faulty variant: a failed request is sent once more before giving up
safeGetWorkspace_resume_retry ==
  /\ fn = "get" /\ pc["safe"] = "awaiting" /\ reply["safe"].arrived
  /\ IF ~reply["safe"].value.success /\ Len(requests["safe"]) < 2
     THEN /\ requests' = [requests EXCEPT !["safe"] = Append(@, safeGetWorkspace_url(teamSlug))]
          /\ reply' = [reply EXCEPT !["safe"] = NoReply]
          /\ UNCHANGED <<fn, teamSlug, parameters, server, pc, result, trace>>
     ELSE Complete("safe", safeGetWorkspace_return(parameters, reply["safe"].value))

safeGetWorkspace_resume ==
  /\ fn = "get" /\ pc["safe"] = "awaiting" /\ reply["safe"].arrived
  /\ Complete("safe", safeGetWorkspace_return(parameters, reply["safe"].value))

\* client.get(url) settles: resolves with the body or rejects with the request error
client_get ==
  /\ pc["throwing"] = "awaiting" /\ ~reply["throwing"].arrived
  /\ reply' = [reply EXCEPT !["throwing"] =
                 IF server.ok
                 THEN [arrived |-> TRUE, settled |-> "resolved", value |-> server.body]
                 ELSE [arrived |-> TRUE, settled |-> "rejected",
                       value |-> RequestError(server.status)]]
  /\ trace' = [trace EXCEPT !["throwing"] = Append(@, "response")]
  /\ UNCHANGED <<fn, teamSlug, parameters, server, pc, requests, result>>

\* client.safeGet(url) settles: always resolves, with a tagged result
client_safeGet ==
  /\ pc["safe"] = "awaiting" /\ ~reply["safe"].arrived
  /\ reply' = [reply EXCEPT !["safe"] =
                 [arrived |-> TRUE, settled |-> "resolved",
                  value |-> IF server.ok THEN Success(server.body)
                            ELSE Failure(RequestError(server.status))]]
  /\ trace' = [trace EXCEPT !["safe"] = Append(@, "response")]
  /\ UNCHANGED <<fn, teamSlug, parameters, server, pc, requests, result>>

Next ==
  \/ listWorkspaces_call
  \/ listWorkspaces_resume
  \/ safeListWorkspaces_call
  \/ safeListWorkspaces_resume
  \/ getWorkspace_call
  \/ getWorkspace_resume
  \/ safeGetWorkspace_call
  \/ safeGetWorkspace_resume
  \/ client_get
  \/ client_safeGet

Spec == Init /\ [][Next]_vars

TypeOK ==
  /\ fn \in {"list", "get"}
  /\ \A v \in Variants : pc[v] \in {"start", "awaiting", "done"}
  /\ \A v \in Variants : Len(requests[v]) <= 1

(***************************************************************************)
(* Properties                                                              *)
(***************************************************************************)
\* the schema option is neither omitted, nor false, nor a Zod schema
ParametersRejected == SchemaOf(parameters) \notin {"undefined", "false", "custom"}

DefaultSchema == IF fn = "list" THEN ListWorkspacesSchema ELSE WorkspaceResponseSchema
CustomSchema == IF fn = "list" THEN ListCustomSchema ELSE GetCustomSchema
SchemaInEffect == IF SchemaOf(parameters) = "custom" THEN CustomSchema ELSE DefaultSchema

\* the response arrives and the schema in effect does not accept it
ResponseRejected ==
  /\ server.ok
  /\ SchemaOf(parameters) # "false"
  /\ ~ZodParse(SchemaInEffect, server.body).success

\* a completed call seen the same way for both variants
Outcome(v) ==
  IF result[v].kind = "throw"
  THEN <<(IF v = "throwing" THEN "rejected" ELSE "raised"), result[v].value>>
  ELSE IF v = "throwing" THEN <<"ok", result[v].value>>
  ELSE IF result[v].value.success THEN <<"ok", result[v].value.data>>
  ELSE <<"rejected", result[v].value.error>>

\* C1: the safe variants never raise; a finished safe call has returned a
\* tagged result, and the tag is success=false whenever the parameters are
\* rejected, the HTTP request fails or the response fails validation.
C1_SafeNeverRaises ==
  /\ result["safe"].kind # "throw"
  /\ pc["safe"] = "done" =>
       /\ result["safe"].kind = "return"
       /\ result["safe"].value.success \in BOOLEAN
       /\ (ParametersRejected \/ ~server.ok \/ ResponseRejected)
            => ~result["safe"].value.success

C1_Witness ==
  /\ pc["safe"] = "done"
  /\ ~ParametersRejected
  /\ ResponseRejected
  /\ ~result["safe"].value.success

\* C2: on a successful HTTP response schema=false returns the body as it
\* came, unparsed; a custom schema decides acceptance and the returned data
\* alone; an omitted schema leaves both to the default schema of the action.
C2_SchemaOptionSelectsValidation ==
  \A v \in Variants :
    (pc[v] = "done" /\ server.ok /\ ~ParametersRejected) =>
      LET option == SchemaOf(parameters)
          expected == ZodParse(IF option = "custom" THEN CustomSchema ELSE DefaultSchema,
                               server.body)
      IN IF option = "false"
         THEN Outcome(v) = <<"ok", server.body>> /\ ~result[v].parsed
         ELSE /\ result[v].parsed
              /\ IF expected.success
                 THEN Outcome(v) = <<"ok", expected.data>>
                 ELSE Outcome(v) = <<"rejected", ZodError(expected.issues)>>

C2_Witness ==
  /\ pc["throwing"] = "done"
  /\ server.ok
  /\ SchemaOf(parameters) = "custom"
  /\ ~ZodParse(DefaultSchema, server.body).success
  /\ result["throwing"].kind = "return"
  /\ result["throwing"].value = ZodParse(CustomSchema, server.body).data

\* C3: on the same arguments and the same HTTP outcome the safe variant
\* returns {success: true, data: d} exactly when the throwing variant returns
\* d, and a success=false result exactly when the throwing variant raises,
\* the failure coming from the same step.
C3_SafeMirrorsThrowing ==
  (pc["throwing"] = "done" /\ pc["safe"] = "done") =>
    /\ result["safe"].kind = "return"
    /\ IF result["throwing"].kind = "return"
       THEN result["safe"].value = Success(result["throwing"].value)
       ELSE ~result["safe"].value.success
    /\ result["safe"].step = result["throwing"].step

C3_Witness ==
  /\ pc["throwing"] = "done" /\ pc["safe"] = "done"
  /\ result["throwing"].kind = "throw"
  /\ result["throwing"].step = "response"
  /\ ~result["safe"].value.success

StepOrder == <<"validateParameters", "request", "response", "validateResponse">>

IsPrefix(s, t) == Len(s) <= Len(t) /\ \A i \in 1..Len(s) : s[i] = t[i]

\* C4: the steps of a call happen in the order validate parameters, send
\* the request, receive the response, validate the response; rejected
\* parameters end the call with the parameter error and no request sent, and
\* no response schema runs before the response has arrived.
C4_StepsInOrder ==
  \A v \in Variants :
    /\ IsPrefix(trace[v], StepOrder)
    /\ result[v].parsed => reply[v].arrived
    /\ ParametersRejected =>
         /\ requests[v] = <<>>
         /\ pc[v] = "done" =>
              /\ result[v].step = "parameters"
              /\ IF v = "throwing" THEN result[v].kind = "throw"
                 ELSE result[v].kind = "return" /\ ~result[v].value.success

C4_Witness ==
  /\ ParametersRejected
  /\ pc["throwing"] = "done" /\ pc["safe"] = "done"
  /\ requests["throwing"] = <<>> /\ requests["safe"] = <<>>

\* C5: a safe variant hands a failed HTTP request back as the client's own
\* failure result, unparsed, whatever the schema option; every success=false
\* result carries a request error or a validation error, exactly one of them.
C5_RequestFailurePassedThrough ==
  (pc["safe"] = "done" /\ result["safe"].kind = "return") =>
    /\ (~ParametersRejected /\ ~server.ok) =>
         /\ result["safe"].value = reply["safe"].value
         /\ result["safe"].value = Failure(RequestError(server.status))
         /\ ~result["safe"].parsed
    /\ ~result["safe"].value.success =>
         (result["safe"].value.error.isRequestError
            # (result["safe"].value.error.issues > 0))

C5_Witness ==
  /\ pc["safe"] = "done"
  /\ ~server.ok
  /\ SchemaOf(parameters) = "custom"
  /\ result["safe"].value = Failure(RequestError(server.status))

\* Reading a URL back: the query entries and the numbers in them
DigitValue(c) == (CHOOSE i \in 1..10 : DigitChars[i] = c) - 1

IsDigit(c) == \E i \in 1..10 : DigitChars[i] = c

RECURSIVE ParseNat(_)
ParseNat(s) ==
  IF Len(s) = 0 THEN 0
  ELSE 10 * ParseNat(SubSeq(s, 1, Len(s) - 1)) + DigitValue(s[Len(s)])

IsIntegerText(s) ==
  LET body == IF Len(s) > 0 /\ s[1] = "-" THEN Tail(s) ELSE s
  IN Len(body) > 0 /\ \A i \in 1..Len(body) : IsDigit(body[i])

\* reads back the decimal text of an integer
ParseInteger(s) == IF s[1] = "-" THEN 0 - ParseNat(Tail(s)) ELSE ParseNat(s)

PercentDecode(h1, h2) ==
  CASE <<h1, h2>> = <<"2", "6">> -> "&"
    [] <<h1, h2>> = <<"3", "D">> -> "="
    [] <<h1, h2>> = <<"2", "B">> -> "+"
    [] <<h1, h2>> = <<"2", "5">> -> "%"
    [] <<h1, h2>> = <<"2", "F">> -> "/"
    [] <<h1, h2>> = <<"3", "F">> -> "?"
    [] OTHER -> "%"

\* application/x-www-form-urlencoded parser, value decoding
RECURSIVE UrlDecode(_)
UrlDecode(s) ==
  IF Len(s) = 0 THEN <<>>
  ELSE IF s[1] = "+" THEN <<" ">> \o UrlDecode(Tail(s))
  ELSE IF s[1] = "%" /\ Len(s) >= 3
       THEN <<PercentDecode(s[2], s[3])>> \o UrlDecode(SubSeq(s, 4, Len(s)))
  ELSE <<s[1]>> \o UrlDecode(Tail(s))

\* position of the first occurrence of c in s, 0 when there is none
RECURSIVE IndexOf(_, _)
IndexOf(s, c) ==
  IF Len(s) = 0 THEN 0
  ELSE IF s[1] = c THEN 1
  ELSE LET r == IndexOf(Tail(s), c) IN IF r = 0 THEN 0 ELSE r + 1

\* the server's reading of a query string: its <<name, value>> entries
RECURSIVE ParseQuery(_)
ParseQuery(q) ==
  IF Len(q) = 0 THEN <<>>
  ELSE LET amp == IndexOf(q, "&")
           piece == IF amp = 0 THEN q ELSE SubSeq(q, 1, amp - 1)
           rest == IF amp = 0 THEN <<>> ELSE SubSeq(q, amp + 1, Len(q))
           eq == IndexOf(piece, "=")
           name == IF eq = 0 THEN piece ELSE SubSeq(piece, 1, eq - 1)
           value == IF eq = 0 THEN <<>> ELSE SubSeq(piece, eq + 1, Len(piece))
       IN IF Len(piece) = 0 THEN ParseQuery(rest)
          ELSE <<(<<UrlDecode(name), UrlDecode(value)>>)>> \o ParseQuery(rest)

\* what the claim says the list URL is for the parameters of this call
ListUrlAsClaimed(url) ==
  LET cursorSupplied == parameters.given /\ parameters.cursor.set
      limitSupplied == parameters.given /\ parameters.limit.set
      prefix == WorkspacesPath \o <<"?">>
  IN IF ~cursorSupplied /\ ~limitSupplied THEN url = WorkspacesPath
     ELSE /\ Len(url) >= Len(prefix)
          /\ SubSeq(url, 1, Len(prefix)) = prefix
          /\ LET entries == ParseQuery(SubSeq(url, Len(prefix) + 1, Len(url)))
             IN /\ cursorSupplied =>
                     \E i \in DOMAIN entries : entries[i] = <<CursorName, parameters.cursor.val>>
                /\ limitSupplied =>
                     \E i \in DOMAIN entries :
                       /\ entries[i][1] = LimitName
                       /\ IsIntegerText(entries[i][2])
                       /\ ParseInteger(entries[i][2]) = parameters.limit.val

\* C6: the list URL is "/workspaces" when neither cursor nor limit is
\* supplied, and otherwise "/workspaces?" plus a query that carries every
\* supplied cursor and every supplied limit, limit 0 and the empty cursor
\* included.
C6_QueryCarriesEverySuppliedValue ==
  \A v \in Variants :
    (fn = "list" /\ requests[v] # <<>>) => ListUrlAsClaimed(requests[v][1])

\* C7: getWorkspace and safeGetWorkspace request exactly "/workspaces/"
\* followed by the teamSlug given, whatever the schema option, and the data
\* they return is the response to that request as the schema in effect
\* leaves it.
C7_GetWorkspacePath ==
  \A v \in Variants :
    (fn = "get" /\ ~ParametersRejected) =>
      /\ pc[v] # "start" => requests[v] = <<WorkspacesPath \o <<"/">> \o teamSlug>>
      /\ (pc[v] = "done" /\ Outcome(v)[1] = "ok") =>
           /\ server.ok
           /\ Outcome(v)[2] = IF SchemaOf(parameters) = "false" THEN server.body
                              ELSE ZodParse(SchemaInEffect, server.body).data

C7_Witness ==
  /\ fn = "get"
  /\ \E i \in DOMAIN teamSlug : teamSlug[i] = "/"
  /\ SchemaOf(parameters) = "custom"
  /\ pc["throwing"] = "done" /\ pc["safe"] = "done"
  /\ result["throwing"].kind = "return"

\* C8: a call sends no request before it starts, none at all when its
\* parameters are rejected, and exactly one otherwise, also after an HTTP
\* failure or a response validation failure.
C8_AtMostOneRequest ==
  \A v \in Variants :
    /\ Len(requests[v]) <= 1
    /\ pc[v] = "start" => requests[v] = <<>>
    /\ pc[v] # "start" => Len(requests[v]) = IF ParametersRejected THEN 0 ELSE 1

C8_Witness ==
  /\ pc["throwing"] = "done" /\ pc["safe"] = "done"
  /\ ~server.ok
  /\ Len(requests["throwing"]) = 1 /\ Len(requests["safe"]) = 1

\* C9: on the same arguments the throwing and the safe variant send the
\* same URL, and the list URL is the one any other schema option would give.
C9_SameUrlBothVariants ==
  /\ (requests["throwing"] # <<>> /\ requests["safe"] # <<>>)
       => requests["throwing"] = requests["safe"]
  /\ \A o \in {"undefined", "false", "custom"} :
       (fn = "list" /\ parameters.given) =>
         /\ requests["throwing"] # <<>> =>
              requests["throwing"][1] = listWorkspaces_url([parameters EXCEPT !.schema = o])
         /\ requests["safe"] # <<>> =>
              requests["safe"][1] = safeListWorkspaces_url([parameters EXCEPT !.schema = o])

C9_Witness ==
  /\ fn = "list"
  /\ parameters.given /\ parameters.cursor.set /\ parameters.limit.set
  /\ Len(parameters.cursor.val) > 0 /\ parameters.limit.val > 0
  /\ requests["throwing"] # <<>> /\ requests["safe"] # <<>>

\* every field of the JSON value in is in out, with the same content
RECURSIVE Contains(_, _)
Contains(out, in) ==
  IF Kind(in) = "obj"
  THEN /\ Kind(out) = "obj"
       /\ DOMAIN in.obj \subseteq DOMAIN out.obj
       /\ \A f \in DOMAIN in.obj : Contains(out.obj[f], in.obj[f])
  ELSE IF Kind(in) = "arr"
  THEN /\ Kind(out) = "arr"
       /\ Len(out.arr) = Len(in.arr)
       /\ \A i \in DOMAIN in.arr : Contains(out.arr[i], in.arr[i])
  ELSE out = in

WorkspaceTypes ==
  [id |-> {"str"}, name |-> {"str"}, slug |-> {"str", "null"},
   tier |-> {"str"}, role |-> {"str"}, created_at |-> {"str"}]

PaginationTypes ==
  [has_more |-> {"bool"}, next_cursor |-> {"str", "null"}, total |-> {"num", "null"}]

HasFields(o, types) ==
  Kind(o) = "obj" /\ \A f \in DOMAIN types : f \in DOMAIN o.obj /\ Kind(o.obj[f]) \in types[f]

LacksField(o, types) == Kind(o) = "obj" /\ \E f \in DOMAIN types : f \notin DOMAIN o.obj

\* the body has every required field with the right type
WellFormed(body) ==
  IF fn = "get" THEN HasFields(body, WorkspaceTypes)
  ELSE /\ Kind(body) = "obj"
       /\ {"data", "pagination"} \subseteq DOMAIN body.obj
       /\ Kind(body.obj["data"]) = "arr"
       /\ \A i \in DOMAIN body.obj["data"].arr : HasFields(body.obj["data"].arr[i], WorkspaceTypes)
       /\ HasFields(body.obj["pagination"], PaginationTypes)

\* the body is an object that lacks a required field at some level
MissingRequired(body) ==
  IF fn = "get" THEN LacksField(body, WorkspaceTypes)
  ELSE /\ Kind(body) = "obj"
       /\ \/ ~({"data", "pagination"} \subseteq DOMAIN body.obj)
          \/ /\ "data" \in DOMAIN body.obj
             /\ Kind(body.obj["data"]) = "arr"
             /\ \E i \in DOMAIN body.obj["data"].arr :
                  LacksField(body.obj["data"].arr[i], WorkspaceTypes)
          \/ /\ "pagination" \in DOMAIN body.obj
             /\ LacksField(body.obj["pagination"], PaginationTypes)

\* C10: under the default schema a response with every required field of
\* the right type is returned with all its fields, unknown ones included, at
\* the top level, in each workspace entry and in pagination; a response that
\* lacks a required field is rejected.
C10_DefaultSchemaPassesUnknownFields ==
  \A v \in Variants :
    (pc[v] = "done" /\ server.ok /\ SchemaOf(parameters) = "undefined") =>
      /\ WellFormed(server.body) =>
           Outcome(v)[1] = "ok" /\ Contains(Outcome(v)[2], server.body)
      /\ MissingRequired(server.body) => Outcome(v)[1] = "rejected"

C10_Witness ==
  /\ fn = "list"
  /\ SchemaOf(parameters) = "undefined"
  /\ pc["throwing"] = "done"
  /\ result["throwing"].kind = "return"
  /\ "request_id" \in DOMAIN server.body.obj
  /\ "request_id" \in DOMAIN result["throwing"].value.obj
  /\ Len(result["throwing"].value.obj["data"].arr) > 0
  /\ "avatar" \in DOMAIN result["throwing"].value.obj["data"].arr[1].obj
  /\ "page_size" \in DOMAIN result["throwing"].value.obj["pagination"].obj

====
